---- MODULE Spec2Model ----
(***************************************************************************)
(* A model of the VisionAnnotate labelling tool: the label document, the   *)
(* pointer handlers of YOLOLabelTool (src/yolo_label_tool.py) and of its   *)
(* subclass RotatedYOLOLabelTool (src/labelling_tool.py), the mode         *)
(* switches, the label list commands, and loading and saving label files.  *)
(*                                                                         *)
(* Numbers.  Python floats are modelled as exact rationals <<n, d>> in     *)
(* lowest terms with d > 0.  Python list indices are 0-based; the TLA+     *)
(* sequence `labels` is 1-based, so labels[selected_label] of the source   *)
(* is labels[selected_label + 1] here.                                     *)
(***************************************************************************)
EXTENDS Integers, Sequences, FiniteSets, TLC

(***************************************************************************)
(* Bounds of the model.                                                    *)
(***************************************************************************)
\* number of image files in the directory that open_image_dir opens
NumImages == 3
\* number of user commands and pointer events the model follows in one session
MaxSteps == 6

(***************************************************************************)
(* Rational arithmetic.                                                    *)
(***************************************************************************)
Abs(i) == IF i < 0 THEN -i ELSE i

RECURSIVE GCD(_, _)
GCD(a, b) == IF b = 0 THEN a ELSE GCD(b, a % b)

\* n/d with the common factor g of n and d removed and d made positive
Reduced(n, d, g) ==
    IF d < 0 THEN <<(-n) \div g, (-d) \div g>> ELSE <<n \div g, d \div g>>

\* the rational n/d (d # 0) in lowest terms, with a positive denominator
Rat(n, d) == Reduced(n, d, GCD(Abs(n), Abs(d)))

Q(i) == <<i, 1>>
Zero == Q(0)
One == Q(1)

\* a + b over the least common denominator, g the gcd of the denominators
AddOver(a, b, g) ==
    Rat(a[1] * (b[2] \div g) + b[1] * (a[2] \div g), (a[2] \div g) * b[2])
RAdd(a, b) == AddOver(a, b, GCD(a[2], b[2]))
RNeg(a) == <<-a[1], a[2]>>
RSub(a, b) == RAdd(a, RNeg(b))
\* a * b, the cross factors g1 and g2 cancelled before multiplying
MulOver(a, b, g1, g2) ==
    Rat((a[1] \div g1) * (b[1] \div g2), (a[2] \div g2) * (b[2] \div g1))
RMul(a, b) == MulOver(a, b, GCD(Abs(a[1]), b[2]), GCD(Abs(b[1]), a[2]))
\* a / b for b # 0
RDiv(a, b) == RMul(a, Rat(b[2], b[1]))
RLt(a, b) == a[1] * b[2] < b[1] * a[2]
RLe(a, b) == a[1] * b[2] <= b[1] * a[2]
RMin(a, b) == IF RLt(b, a) THEN b ELSE a
RMax(a, b) == IF RLt(a, b) THEN b ELSE a
RAbs(a) == <<Abs(a[1]), a[2]>>
RHalf(a) == RMul(a, <<1, 2>>)

\* m with the sign of the integer s
Signed(s, m) == IF s < 0 THEN RNeg(m) ELSE m

\* int(x): truncation towards zero
Trunc(a) == IF a[1] >= 0 THEN a[1] \div a[2] ELSE -((-a[1]) \div a[2])

\* f"{x:.6f}" read back as a number: x rounded to 6 decimal places
Fmt6(a) ==
    LET n == Abs(a[1])
        d == a[2]
        ip == n \div d
        r0 == n % d
        hi == (r0 * 1000) \div d
        r1 == (r0 * 1000) % d
        lo == (r1 * 1000) \div d
        r2 == (r1 * 1000) % d
        up == IF 2 * r2 >= d THEN 1 ELSE 0
    IN  Signed(a[1], RAdd(Q(ip), Rat(hi * 1000 + lo + up, 1000000)))

\* max(lo, min(hi, v)) as the source writes its clamps
Clamp(lo, hi, v) == RMax(lo, RMin(hi, v))
MinSize == <<1, 1000>>
ClampCenter(v) == Clamp(Zero, One, v)
ClampSize(v) == Clamp(MinSize, One, v)

(***************************************************************************)
(* Trigonometry.  np.sin, np.cos and np.arctan2 are modelled by rational   *)
(* approximations that are exact on the multiples of 90 degrees: the sine  *)
(* by Bhaskara's formula on the angle in tenths of a degree, to three      *)
(* decimal places, the arc tangent by a quadratic, to 1/100 of a degree.   *)
(***************************************************************************)
Floor(a) == a[1] \div a[2]

BhaskaraSin(x) ==
    LET q == x * (1800 - x)
    IN  Rat((q * 1000) \div ((4050000 - q) \div 4), 1000)

\* the sine of x tenths of a degree, 0 <= x < 3600
SinTurn(x) == IF x <= 1800 THEN BhaskaraSin(x) ELSE RNeg(BhaskaraSin(x - 1800))
SinTenths(t) == SinTurn(t % 3600)

SinDeg(a) == SinTenths(Floor(RMul(a, Q(10))))
CosDeg(a) == SinTenths(Floor(RMul(a, Q(10))) + 900)

\* arctan(t) in degrees for 0 < t <= 1
AtanUnit(t) ==
    Rat(Floor(RMul(RAdd(RMul(Q(45), t),
                        RMul(<<391, 25>>, RMul(t, RSub(One, t)))),
                   Q(100))), 100)

\* arctan(|dy| / |dx|) in degrees for dx # 0, dy # 0: in (0, 90)
AtanPos(dy, dx) ==
    IF RLe(RAbs(dy), RAbs(dx))
    THEN AtanUnit(RDiv(RAbs(dy), RAbs(dx)))
    ELSE RSub(Q(90), AtanUnit(RDiv(RAbs(dx), RAbs(dy))))

\* the angle a of the first quadrant, in the quadrant of a negative dx
Mirrored(s, a) == IF s > 0 THEN a ELSE RSub(Q(180), a)

\* np.degrees(np.arctan2(dy, dx)), in (-180, 180]
Atan2Deg(dy, dx) ==
    IF dy = Zero THEN (IF dx[1] >= 0 THEN Zero ELSE Q(180))
    ELSE IF dx = Zero THEN (IF dy[1] > 0 THEN Q(90) ELSE Q(-90))
    ELSE Signed(dy[1], Mirrored(dx[1], AtanPos(dy, dx)))

(***************************************************************************)
(* Geometry.                                                               *)
(***************************************************************************)
\* the pixel tolerance of the handle hit test
HandleTolerance == 10

\* QRectF(x, y, w, h).contains(px, py): edges included, a null rectangle
\* contains nothing
Inside(l, r, t, b, px, py) ==
    /\ l # r
    /\ t # b
    /\ RLe(l, px) /\ RLe(px, r)
    /\ RLe(t, py) /\ RLe(py, b)
RectContains(x, y, w, h, px, py) ==
    Inside(RMin(x, RAdd(x, w)), RMax(x, RAdd(x, w)),
           RMin(y, RAdd(y, h)), RMax(y, RAdd(y, h)), px, py)

\* QRectF(xc - w/2, yc - h/2, w, h).contains(p), all in pixels
PixelBoxContains(xc, yc, w, h, p) ==
    RectContains(RSub(xc, RHalf(w)), RSub(yc, RHalf(h)), w, h, p[1], p[2])

\* the unrotated box of a label, as the press handler builds it, contains p
BoxContains(label, W, H, p) ==
    PixelBoxContains(RMul(label.x_center, Q(W)), RMul(label.y_center, Q(H)),
                     RMul(label.width, Q(W)), RMul(label.height, Q(H)), p)

\* a point (dx, dy) relative to the centre, rotated and translated
Rotated(dx, dy, cosA, sinA, xc, yc) ==
    <<RAdd(RSub(RMul(dx, cosA), RMul(dy, sinA)), xc),
      RAdd(RAdd(RMul(dx, sinA), RMul(dy, cosA)), yc)>>

\* a variant of HandlesAround that lists the corners row by row: top-left,
\* top-right, bottom-left, bottom-right
HandlesAround_by_rows(xc, yc, hw, hh, c, s) ==
    << Rotated(RNeg(hw), RNeg(hh), c, s, xc, yc),
       Rotated(hw, RNeg(hh), c, s, xc, yc),
       Rotated(RNeg(hw), hh, c, s, xc, yc),
       Rotated(hw, hh, c, s, xc, yc),
       Rotated(Zero, RNeg(hh), c, s, xc, yc),
       Rotated(hw, Zero, c, s, xc, yc),
       Rotated(Zero, hh, c, s, xc, yc),
       Rotated(RNeg(hw), Zero, c, s, xc, yc) >>

\* a variant of HandlesAround that lists the edge centres as top, bottom,
\* left, right
HandlesAround_edges_paired(xc, yc, hw, hh, c, s) ==
    << Rotated(RNeg(hw), RNeg(hh), c, s, xc, yc),
       Rotated(hw, RNeg(hh), c, s, xc, yc),
       Rotated(hw, hh, c, s, xc, yc),
       Rotated(RNeg(hw), hh, c, s, xc, yc),
       Rotated(Zero, RNeg(hh), c, s, xc, yc),
       Rotated(Zero, hh, c, s, xc, yc),
       Rotated(RNeg(hw), Zero, c, s, xc, yc),
       Rotated(hw, Zero, c, s, xc, yc) >>

\* the 8 handles of a label in pixels: 4 corners, then 4 edge centres
\* the 4 corners and 4 edge centres around (xc, yc) with half sizes hw, hh
HandlesAround(xc, yc, hw, hh, c, s) ==
    << Rotated(RNeg(hw), RNeg(hh), c, s, xc, yc),
       Rotated(hw, RNeg(hh), c, s, xc, yc),
       Rotated(hw, hh, c, s, xc, yc),
       Rotated(RNeg(hw), hh, c, s, xc, yc),
       Rotated(Zero, RNeg(hh), c, s, xc, yc),
       Rotated(hw, Zero, c, s, xc, yc),
       Rotated(Zero, hh, c, s, xc, yc),
       Rotated(RNeg(hw), Zero, c, s, xc, yc) >>

calculate_handles(label, W, H) ==
    HandlesAround(RMul(label.x_center, Q(W)), RMul(label.y_center, Q(H)),
                  RHalf(RMul(label.width, Q(W))),
                  RHalf(RMul(label.height, Q(H))),
                  CosDeg(label.angle), SinDeg(label.angle))

\* the test of the press handler: abs(x - hx) < 10 and abs(y - hy) < 10
NearHandle(p, hp) ==
    /\ RLt(RAbs(RSub(p[1], hp[1])), Q(HandleTolerance))
    /\ RLt(RAbs(RSub(p[2], hp[2])), Q(HandleTolerance))

\* the 0-based index of the first of the 1-based positions S, or -1
FirstOf(S) == IF S = {} THEN -1 ELSE (CHOOSE i \in S : \A j \in S : i <= j) - 1

\* the 0-based index of the first of the handles hs near p, or -1
FirstNear(hs, p) == FirstOf({i \in 1..8 : NearHandle(p, hs[i])})

\* the 0-based index of the first handle of the label near p, or -1
FirstHandle(label, W, H, p) == FirstNear(calculate_handles(label, W, H), p)

(***************************************************************************)
(* The hit test of RotatedYOLOLabelTool (src/labelling_tool.py).           *)
(***************************************************************************)
\* the threshold of check_near_existing_points, in pixels
NearThreshold == 10

\* math.sqrt(dx**2 + dy**2) < 10
\* dx**2 + dy**2 < 10**2 for |dx|, |dy| < 10 given in thousandths of a pixel
ShorterMilli(mx, my) ==
    mx * mx + my * my < NearThreshold * NearThreshold * 1000000
\* a displacement with a component of 10 pixels or more is not shorter than
\* 10; a smaller one is compared in thousandths of a pixel
Shorter(dx, dy) ==
    /\ RLt(dx, Q(NearThreshold))
    /\ RLt(dy, Q(NearThreshold))
    /\ ShorterMilli(Floor(RMul(dx, Q(1000))), Floor(RMul(dy, Q(1000))))
WithinDistance(p, q) ==
    Shorter(RAbs(RSub(p[1], q[1])), RAbs(RSub(p[2], q[2])))

\* the four corners calculate_rotated_corners returns
calculate_rotated_corners(label, W, H) ==
    SubSeq(calculate_handles(label, W, H), 1, 4)

\* the 0-based index of the first label with a corner or its centre within
\* the threshold of p, or -1
NearPoints(l, cs, W, H, p) ==
    \/ \E i \in 1..4 : WithinDistance(p, cs[i])
    \/ WithinDistance(p, <<RMul(l.x_center, Q(W)), RMul(l.y_center, Q(H))>>)

check_near_existing_points(ls, W, H, p) ==
    FirstOf({i \in 1..Len(ls) :
                NearPoints(ls[i], calculate_rotated_corners(ls[i], W, H),
                           W, H, p)})

(***************************************************************************)
(* The environment: one image directory and the session config.            *)
(***************************************************************************)
Images == 0..(NumImages - 1)

\* the pixel size cv2.imread reports for image i
ImageSize(i) == IF i = 1 THEN [w |-> 300, h |-> 150] ELSE [w |-> 200, h |-> 100]

\* image 2 is a file that neither cv2 nor PIL can decode
Loadable(i) == i # 2

\* tokens of a label file line: an integer literal, a decimal literal, or a
\* token that is not a number
IntTok(n) == <<"int", Q(n)>>
NumTok(r) == <<"num", r>>
BadTok == <<"bad", Zero>>
File(ls) == [exists |-> TRUE, lines |-> ls]
NoFile == [exists |-> FALSE, lines |-> <<>>]

\* a place in a label file where reading raises an I/O error
ReadError == <<"error", Zero>>

\* the label files present before the session.  Image 0 has one label, the
\* box from (10,10) to (110,60) of its 200 x 100 pixels, and its file cannot
\* be read past that line; image 1 has a slightly rotated label, the box
\* from (15,15) to (105,60) of its 300 x 150 pixels turned by 1.5 degrees,
\* and a label outside the normalised ranges, among lines that are too
\* short or hold a field that is no number; image 2 has an empty label
\* file; any further image has none.
InitialFile(i) ==
    IF i = 0
    THEN File(<< <<IntTok(0), NumTok(<<3, 10>>), NumTok(<<7, 20>>),
                   NumTok(<<1, 2>>), NumTok(<<1, 2>>)>>,
                 <<ReadError>>,
                 <<IntTok(0), NumTok(<<1, 2>>), NumTok(<<1, 2>>),
                   NumTok(<<1, 5>>), NumTok(<<1, 5>>)>> >>)
    ELSE IF i = 1
    THEN File(<< <<IntTok(0), NumTok(<<1, 2>>), NumTok(<<1, 2>>),
                   NumTok(<<1, 5>>)>>,
                 <<IntTok(1), NumTok(<<1, 5>>), NumTok(<<1, 4>>),
                   NumTok(<<3, 10>>), NumTok(<<3, 10>>), NumTok(<<3, 2>>)>>,
                 <<IntTok(0), NumTok(<<1, 2>>), BadTok, NumTok(<<1, 5>>),
                   NumTok(<<1, 5>>)>>,
                 <<NumTok(<<1, 2>>), NumTok(<<1, 2>>), NumTok(<<1, 2>>),
                   NumTok(<<1, 5>>), NumTok(<<1, 5>>)>>,
                 <<IntTok(0), NumTok(<<3, 2>>), NumTok(<<1, 2>>),
                   NumTok(<<1, 2>>), NumTok(Zero)>>,
                 <<IntTok(0), NumTok(<<1, 2>>), NumTok(<<1, 2>>),
                   NumTok(<<1, 5>>), NumTok(<<1, 5>>), BadTok>> >>)
    ELSE IF i = 2 THEN File(<<>>)
    ELSE NoFile

\* the lists a config file can hold under "classes"
ConfigClasses == {<<"object">>, <<"car", "person">>}

\* the config file: missing, unreadable or not valid JSON ("invalid"), or a
\* JSON object whose "classes" entry is the list `classes` (empty also when
\* the entry is absent)
Config(k, cls) == [kind |-> k, classes |-> cls]
Configs == {Config("missing", <<>>), Config("invalid", <<>>),
            Config("json", <<>>)}
           \cup {Config("json", cls) : cls \in ConfigClasses}

\* a variant of load_config that keeps whatever list the file holds
load_config_as_stored(cfg) ==
    IF cfg.kind = "json" THEN cfg.classes ELSE <<"object">>

\* the class table load_config leaves
load_config(cfg) ==
    IF cfg.kind = "json" /\ cfg.classes # <<>> THEN cfg.classes
    ELSE <<"object">>

\* the config file save_config writes
save_config(cls) == Config("json", cls)

\* the positions pointer events arrive at, in image pixels
Pt(x, y) == <<Q(x), Q(y)>>
\* (52,2) lies above the top edge of the label of image 0, 8 pixels left of
\* and 8 pixels above its top edge handle (60,10)
Points == {Pt(10, 10), Pt(110, 60), Pt(60, 35), Pt(60, 10), Pt(52, 2)}

\* the values the user moves the angle slider to
SliderInputs == {0, 30}

\* None, for the fields that hold an image, an exception or a rectangle
NoImage == -1
NoException == "None"
NoRect == [set |-> FALSE, x |-> Zero, y |-> Zero, w |-> Zero, h |-> Zero]
Rect(x, y, w, h) == [set |-> TRUE, x |-> x, y |-> y, w |-> w, h |-> h]
\* the content of an empty or unparsable text field
NoText == BadTok

(***************************************************************************)
(* The state of YOLOLabelTool (src/yolo_label_tool.py, __init__), of the   *)
(* widgets whose values the handlers read back, and of the label files.    *)
(***************************************************************************)
VARIABLES
    tool,             \* the class that runs: YOLOLabelTool or its subclass
    image_files,      \* the indices of the images listed, in sorted order
    current_index,
    current_image,    \* NoImage, or the image the pixmap was decoded from
    image_width, image_height,
    labels,           \* the labels of the document
    classes,
    labeled_images,
    selected_label,
    drawing_mode, edit_mode, orientation_mode,
    drawing, dragging, resizing, rotating,
    start_point, temp_rect, resize_handle, drag_offset, original_label,
    angle_slider,     \* angle_slider.value()
    class_combo,      \* class_combo.currentIndex()
    x_edit, y_edit, width_edit, height_edit,
    label_file,       \* image index -> NoFile or the lines of its label file
    config,           \* the config file in the home directory
    raised,           \* the exception a handler let escape, or NoException
    nsteps            \* the commands and pointer events handled so far

modeVars == <<drawing_mode, edit_mode, orientation_mode>>
gestureVars == <<drawing, dragging, resizing, rotating, start_point, temp_rect,
                 resize_handle, drag_offset, original_label>>
imageVars == <<image_files, current_index, current_image, image_width,
               image_height>>
classVars == <<classes, class_combo>>
editVars == <<x_edit, y_edit, width_edit, height_edit>>
vars == <<tool, imageVars, labels, classVars, labeled_images, selected_label,
          modeVars, gestureVars, angle_slider, editVars, label_file, config,
          raised, nsteps>>

Label(c, x, y, w, h, a) ==
    [class_id |-> c, x_center |-> x, y_center |-> y, width |-> w,
     height |-> h, angle |-> a]

\* the window after __init__, whatever the directory holds
Constructed ==
    /\ tool \in {"YOLOLabelTool", "RotatedYOLOLabelTool"}
    /\ image_files = <<>>
    /\ current_index = -1
    /\ current_image = NoImage
    /\ image_width = 0
    /\ image_height = 0
    /\ labels = <<>>
    /\ config \in Configs
    /\ classes = load_config(config)
    /\ labeled_images = {}
    /\ selected_label = -1
    /\ drawing_mode = TRUE
    /\ edit_mode = FALSE
    /\ orientation_mode = FALSE
    /\ drawing = FALSE
    /\ dragging = FALSE
    /\ resizing = FALSE
    /\ rotating = FALSE
    /\ start_point = Pt(0, 0)
    /\ temp_rect = NoRect
    /\ resize_handle = -1
    /\ drag_offset = Pt(0, 0)
    /\ original_label = Label(0, Zero, Zero, Zero, Zero, Zero)
    /\ angle_slider = 0
    /\ class_combo = 0
    /\ x_edit = NoText
    /\ y_edit = NoText
    /\ width_edit = NoText
    /\ height_edit = NoText
    /\ raised = NoException
    /\ nsteps = 0

\* the window after __init__ over the directory of InitialFile
Init ==
    /\ Constructed
    /\ label_file = [i \in Images |-> InitialFile(i)]

(***************************************************************************)
(* Widgets and list refreshes shared by the handlers.                      *)
(***************************************************************************)
SliderMin == -180
SliderMax == 180
\* QSlider.setValue keeps the value inside the slider's range
SliderClamp(v) ==
    IF v < SliderMin THEN SliderMin ELSE IF v > SliderMax THEN SliderMax ELSE v

\* the labels after angle_slider.setValue(v): a change of the value emits
\* valueChanged, and update_angle_from_slider writes it to the selected label
SetValueLabels(ls, sel, old, v) ==
    IF SliderClamp(v) # old /\ sel >= 0 /\ sel < Len(ls)
    THEN [ls EXCEPT ![sel + 1].angle = Q(SliderClamp(v))]
    ELSE ls

\* update_label_info acts only on a selection that indexes the list
InfoShown(ls, sel) == sel >= 0 /\ sel < Len(ls)

\* the labels after update_label_info
InfoLabels(ls, sel, slider) ==
    IF InfoShown(ls, sel)
    THEN SetValueLabels(ls, sel, slider, Trunc(ls[sel + 1].angle))
    ELSE ls

\* the widgets after update_label_info on labels ls
InfoWidgets(ls, sel) ==
    IF InfoShown(ls, sel)
    THEN LET l == ls[sel + 1]
         IN  /\ x_edit' = NumTok(Fmt6(l.x_center))
             /\ y_edit' = NumTok(Fmt6(l.y_center))
             /\ width_edit' = NumTok(Fmt6(l.width))
             /\ height_edit' = NumTok(Fmt6(l.height))
             /\ angle_slider' = SliderClamp(Trunc(l.angle))
             /\ class_combo' = IF l.class_id < Len(classes)
                               THEN (IF l.class_id < 0 THEN -1 ELSE l.class_id)
                               ELSE class_combo
    ELSE UNCHANGED <<editVars, angle_slider, class_combo>>

\* clear_label_info: the text fields are emptied and the slider set to 0
ClearInfo ==
    /\ x_edit' = NoText
    /\ y_edit' = NoText
    /\ width_edit' = NoText
    /\ height_edit' = NoText
    /\ angle_slider' = 0

\* update_labels_list and update_display index the class table with class_id:
\* a negative class_id below -len(classes) is out of range
ListRaises(ls, cls) ==
    \E i \in 1..Len(ls) : ls[i].class_id < 0 /\ -ls[i].class_id > Len(cls)

\* RotatedYOLOLabelTool.update_display ends with self.canvas.setPixmap, and
\* no class gives the window a canvas: with an image loaded it raises
DisplayRaises == tool = "RotatedYOLOLabelTool" /\ current_image # NoImage

\* the exception of the refreshes (update_labels_list, update_display) that
\* end a handler, or NoException
Refresh(ls, cls) ==
    IF DisplayRaises THEN "AttributeError"
    ELSE IF ListRaises(ls, cls) THEN "IndexError"
    ELSE NoException

\* The event loop hands one command or pointer event to its handler.  An
\* exception that escapes a handler ends the session (PyQt5 aborts the
\* process on an unhandled exception); a session is followed for MaxSteps
\* commands and pointer events.
Dispatch ==
    /\ raised = NoException
    /\ nsteps < MaxSteps
    /\ nsteps' = nsteps + 1

(***************************************************************************)
(* Pointer handlers of YOLOLabelTool (eventFilter on the viewport).        *)
(* p is the position mapToScene returns, in image pixels; only the left    *)
(* button is modelled.                                                     *)
(***************************************************************************)
\* the 0-based index of the first label whose unrotated box contains p, or -1
FirstContaining(ls, W, H, p) ==
    FirstOf({i \in 1..Len(ls) : BoxContains(ls[i], W, H, p)})

\* Draw mode: start drawing a new box
PressDraw(p) ==
    /\ drawing' = TRUE
    /\ start_point' = p
    /\ temp_rect' = Rect(p[1], p[2], Zero, Zero)
    /\ UNCHANGED <<dragging, resizing, rotating, resize_handle, drag_offset,
                   original_label, labels, selected_label, angle_slider,
                   classVars, editVars, raised>>

\* Edit mode with a selection: a handle starts a resize, the inside of the
\* selected box starts a drag, otherwise the first label under p is selected
\* hnd is the handle of the selected label under p, hit the first label
\* under p
\* a variant of PressEditOn that tests the inside of the selected box before
\* its handles
PressEditOn_box_first(p, label, hnd, hit) ==
    IF BoxContains(label, image_width, image_height, p)
    THEN /\ dragging' = TRUE
         /\ drag_offset' = <<RSub(p[1], RMul(label.x_center, Q(image_width))),
                             RSub(p[2], RMul(label.y_center, Q(image_height)))>>
         /\ original_label' = label
         /\ UNCHANGED <<drawing, resizing, rotating, start_point, temp_rect,
                        resize_handle, labels, selected_label, angle_slider,
                        classVars, editVars, raised>>
    ELSE IF hnd >= 0
    THEN /\ resizing' = TRUE
         /\ resize_handle' = hnd
         /\ original_label' = label
         /\ UNCHANGED <<drawing, dragging, rotating, start_point, temp_rect,
                        drag_offset, labels, selected_label, angle_slider,
                        classVars, editVars, raised>>
    ELSE UNCHANGED <<gestureVars, labels, selected_label, angle_slider,
                     classVars, editVars, raised>>

PressEditOn(p, label, hnd, hit) ==
    IF hnd >= 0
    THEN /\ resizing' = TRUE
         /\ resize_handle' = hnd
         /\ original_label' = label
         /\ UNCHANGED <<drawing, dragging, rotating, start_point, temp_rect,
                        drag_offset, labels, selected_label, angle_slider,
                        classVars, editVars, raised>>
    ELSE IF BoxContains(label, image_width, image_height, p)
    THEN /\ dragging' = TRUE
         /\ drag_offset' = <<RSub(p[1], RMul(label.x_center, Q(image_width))),
                             RSub(p[2], RMul(label.y_center, Q(image_height)))>>
         /\ original_label' = label
         /\ UNCHANGED <<drawing, resizing, rotating, start_point, temp_rect,
                        resize_handle, labels, selected_label, angle_slider,
                        classVars, editVars, raised>>
    ELSE IF hit >= 0
    THEN /\ selected_label' = hit
         /\ labels' = InfoLabels(labels, hit, angle_slider)
         /\ InfoWidgets(labels, hit)
         /\ raised' = Refresh(labels', classes)
         /\ UNCHANGED <<gestureVars, classes>>
    ELSE UNCHANGED <<gestureVars, labels, selected_label, angle_slider,
                     classVars, editVars, raised>>

PressEdit(p) ==
    IF selected_label >= Len(labels)
    THEN /\ raised' = "IndexError"
         /\ UNCHANGED <<gestureVars, labels, selected_label, angle_slider,
                        classVars, editVars>>
    ELSE PressEditOn(p, labels[selected_label + 1],
                     FirstHandle(labels[selected_label + 1], image_width,
                                 image_height, p),
                     FirstContaining(labels, image_width, image_height, p))

\* Rotate mode with a selection: start rotating
PressRotate ==
    /\ rotating' = TRUE
    /\ UNCHANGED <<drawing, dragging, resizing, start_point, temp_rect,
                   resize_handle, drag_offset, original_label, labels,
                   selected_label, angle_slider, classVars, editVars, raised>>

\* a variant of handle_mouse_press whose Draw-mode press on a corner or the
\* centre of a label selects the label and switches to Edit mode, as
\* check_near_existing_points would
handle_mouse_press_selecting(p) ==
    /\ Dispatch
    /\ current_image # NoImage
    /\ drawing_mode
    /\ check_near_existing_points(labels, image_width, image_height, p) >= 0
    /\ selected_label' =
          check_near_existing_points(labels, image_width, image_height, p)
    /\ drawing_mode' = FALSE
    /\ edit_mode' = TRUE
    /\ orientation_mode' = FALSE
    /\ drawing' = TRUE
    /\ start_point' = p
    /\ UNCHANGED <<tool, config, imageVars, labels, classVars, labeled_images,
                   dragging, resizing, rotating, temp_rect, resize_handle,
                   drag_offset, original_label, angle_slider, editVars,
                   label_file, raised>>

handle_mouse_press(p) ==
    /\ Dispatch
    /\ IF current_image = NoImage
       THEN UNCHANGED <<gestureVars, labels, selected_label, angle_slider,
                        classVars, editVars, raised>>
       ELSE IF drawing_mode THEN PressDraw(p)
       ELSE IF edit_mode /\ selected_label >= 0 THEN PressEdit(p)
       ELSE IF orientation_mode /\ selected_label >= 0 THEN PressRotate
       ELSE UNCHANGED <<gestureVars, labels, selected_label, angle_slider,
                        classVars, editVars, raised>>
    /\ UNCHANGED <<tool, config, imageVars, labeled_images, modeVars,
                   label_file>>

\* QRectF(start, pos).normalized()
NormalizedRect(a, b) ==
    Rect(RMin(a[1], b[1]), RMin(a[2], b[2]),
         RAbs(RSub(b[1], a[1])), RAbs(RSub(b[2], a[2])))

\* the least and the greatest of a non-empty set of rationals
MinOf(S) == CHOOSE a \in S : \A b \in S : RLe(a, b)
MaxOf(S) == CHOOSE a \in S : \A b \in S : RLe(b, a)

\* the selected label after a drag to p
DragLabel(label, p) ==
    [label EXCEPT
        !.x_center = ClampCenter(RDiv(RSub(p[1], drag_offset[1]),
                                      Q(image_width))),
        !.y_center = ClampCenter(RDiv(RSub(p[2], drag_offset[2]),
                                      Q(image_height)))]

\* the Python index h into a list of n items: the 1-based position, or 0
\* when h is out of range
ListIndex(h, n) ==
    IF h >= 0 /\ h < n THEN h + 1
    ELSE IF h < 0 /\ -h <= n THEN n + h + 1
    ELSE 0

\* corner handle: the axis-aligned bounding box of the original corners
\* with the dragged corner replaced by p
\* the label with the box from (x_min, y_min) to (x_max, y_max)
Spanning(label, x_min, y_min, x_max, y_max) ==
    [label EXCEPT !.x_center = RHalf(RAdd(x_min, x_max)),
                  !.y_center = RHalf(RAdd(y_min, y_max)),
                  !.width = RSub(x_max, x_min),
                  !.height = RSub(y_max, y_min)]

\* the label with the normalised bounding box of the pixel coordinates
Bounding(label, xs, ys) ==
    Spanning(label, RDiv(MinOf(xs), Q(image_width)),
             RDiv(MinOf(ys), Q(image_height)),
             RDiv(MaxOf(xs), Q(image_width)),
             RDiv(MaxOf(ys), Q(image_height)))

\* the corners orig with the one at 1-based position k replaced by p
Modified(orig, k, p) == [i \in 1..4 |-> IF i = k THEN p ELSE orig[i]]

BoundingCorners(label, mod) ==
    Bounding(label, {mod[i][1] : i \in 1..4}, {mod[i][2] : i \in 1..4})

\* a variant of ResizeCorner that takes the corners of the label as it is
\* now, not of the snapshot
ResizeCorner_incremental(label, original, h, p) ==
    BoundingCorners(label,
        Modified(calculate_handles(label, image_width, image_height),
                 ListIndex(h, 4), p))

ResizeCorner(label, original, h, p) ==
    BoundingCorners(label,
        Modified(calculate_handles(original, image_width, image_height),
                 ListIndex(h, 4), p))

\* edge handle: one dimension of the original is rescaled
ResizeEdge(label, original, h, p) ==
    IF h - 4 = 0 \/ h - 4 = 2
    THEN LET scale == RDiv(RSub(p[2], RMul(original.y_center, Q(image_height))),
                           RHalf(RMul(Q(image_height), original.height)))
         IN  [label EXCEPT !.height = RMul(original.height, RAdd(One, scale))]
    ELSE LET scale == RDiv(RSub(p[1], RMul(original.x_center, Q(image_width))),
                           RHalf(RMul(Q(image_width), original.width)))
         IN  [label EXCEPT !.width = RMul(original.width, RAdd(One, scale))]

\* "Keep within bounds" at the end of the resize branch
ClampLabel(label) ==
    [label EXCEPT !.x_center = ClampCenter(label.x_center),
                  !.y_center = ClampCenter(label.y_center),
                  !.width = ClampSize(label.width),
                  !.height = ClampSize(label.height)]

\* the selected label after a rotate gesture moved to p
RotateLabel(label, p) ==
    [label EXCEPT !.angle =
        Atan2Deg(RSub(p[2], RMul(label.y_center, Q(image_height))),
                 RSub(p[1], RMul(label.x_center, Q(image_width))))]

\* a handler ends with the exception exc and changes nothing else
Raise(exc) ==
    /\ raised' = exc
    /\ UNCHANGED <<gestureVars, labels, selected_label, angle_slider,
                   classVars, editVars>>

\* a handler wrote `label` to the selected label and then refreshed the
\* label info fields and the list
Show(ls) ==
    /\ IF DisplayRaises
       THEN /\ labels' = ls
            /\ UNCHANGED <<angle_slider, class_combo, editVars>>
       ELSE /\ labels' = InfoLabels(ls, selected_label, angle_slider)
            /\ InfoWidgets(ls, selected_label)
    /\ raised' = Refresh(labels', classes)
    /\ UNCHANGED <<gestureVars, selected_label, classes>>
StoreAndShow(label) == Show([labels EXCEPT ![selected_label + 1] = label])

\* the rotate branch wrote the angle of l to the selected label and then
\* set the slider to int(angle)
StoreAngle(l) ==
    /\ labels' = SetValueLabels([labels EXCEPT ![selected_label + 1] = l],
                                selected_label, angle_slider, Trunc(l.angle))
    /\ angle_slider' = SliderClamp(Trunc(l.angle))
    /\ raised' = Refresh(labels', classes)
    /\ UNCHANGED <<gestureVars, selected_label, classVars, editVars>>

\* a variant of handle_mouse_move whose hover in Edit mode, with no gesture
\* active, selects the first label under the pointer
handle_mouse_move_hover_selects(p) ==
    /\ Dispatch
    /\ edit_mode
    /\ current_image # NoImage
    /\ ~drawing /\ ~dragging /\ ~resizing /\ ~rotating
    /\ FirstContaining(labels, image_width, image_height, p) >= 0
    /\ selected_label' = FirstContaining(labels, image_width, image_height, p)
    /\ UNCHANGED <<tool, config, imageVars, labels, classVars, labeled_images,
                   modeVars, gestureVars, angle_slider, editVars, label_file,
                   raised>>

handle_mouse_move(p) ==
    /\ Dispatch
    /\ IF drawing /\ drawing_mode
       THEN /\ temp_rect' = NormalizedRect(start_point, p)
            \* update_display_with_temp
            /\ raised' = IF current_image = NoImage THEN raised
                         ELSE Refresh(labels, classes)
            /\ UNCHANGED <<drawing, dragging, resizing, rotating, start_point,
                           resize_handle, drag_offset, original_label, labels,
                           selected_label, angle_slider, classVars, editVars>>
       ELSE IF dragging /\ edit_mode /\ selected_label >= 0
       THEN IF selected_label >= Len(labels) THEN Raise("IndexError")
            ELSE IF image_width = 0 \/ image_height = 0
            THEN Raise("ZeroDivisionError")
            ELSE StoreAndShow(DragLabel(labels[selected_label + 1], p))
       ELSE IF resizing /\ edit_mode /\ selected_label >= 0
       THEN IF selected_label >= Len(labels) THEN Raise("IndexError")
            \* modified_corners[self.resize_handle] = (x, y) on a list of 4
            ELSE IF ListIndex(resize_handle, 4) = 0 THEN Raise("IndexError")
            ELSE IF image_width = 0 \/ image_height = 0
            THEN Raise("ZeroDivisionError")
            ELSE StoreAndShow(ClampLabel(
                    IF resize_handle < 4
                    THEN ResizeCorner(labels[selected_label + 1],
                                      original_label, resize_handle, p)
                    ELSE ResizeEdge(labels[selected_label + 1],
                                    original_label, resize_handle, p)))
       ELSE IF rotating /\ orientation_mode /\ selected_label >= 0
       THEN IF selected_label >= Len(labels) THEN Raise("IndexError")
            ELSE StoreAngle(RotateLabel(labels[selected_label + 1], p))
       \* hovering only changes the cursor
       ELSE UNCHANGED <<gestureVars, labels, selected_label, angle_slider,
                        classVars, editVars, raised>>
    /\ UNCHANGED <<tool, config, imageVars, labeled_images, modeVars,
                   label_file>>

\* bool(self.temp_rect): a QRectF is true when it is valid
RectTrue(r) == r.set /\ RLt(Zero, r.w) /\ RLt(Zero, r.h)

\* the label a release commits from the drawn rectangle
DrawnLabel(rect) ==
    Label(IF class_combo < 0 THEN 0 ELSE class_combo,
          ClampCenter(RDiv(RAdd(rect.x, RHalf(rect.w)), Q(image_width))),
          ClampCenter(RDiv(RAdd(rect.y, RHalf(rect.h)), Q(image_height))),
          ClampSize(RDiv(rect.w, Q(image_width))),
          ClampSize(RDiv(rect.h, Q(image_height))),
          Q(angle_slider))

handle_mouse_release ==
    /\ Dispatch
    /\ IF drawing /\ RectTrue(temp_rect) /\ drawing_mode
       THEN /\ labels' = Append(labels, DrawnLabel(temp_rect))
            /\ drawing' = FALSE
            /\ temp_rect' = NoRect
            /\ raised' = Refresh(labels', classes)
            /\ UNCHANGED <<dragging, resizing, rotating, start_point,
                           resize_handle, drag_offset, original_label>>
       ELSE /\ dragging' = FALSE
            /\ resizing' = FALSE
            /\ rotating' = FALSE
            /\ resize_handle' = -1
            /\ UNCHANGED <<drawing, start_point, temp_rect, drag_offset,
                           original_label, labels, raised>>
    /\ config' = IF (drawing /\ RectTrue(temp_rect) /\ drawing_mode)
                     \/ current_index < 0
                  THEN config ELSE save_config(classes)
    /\ UNCHANGED <<tool, imageVars, classVars, labeled_images, selected_label,
                   modeVars, angle_slider, editVars, label_file>>

(***************************************************************************)
(* RotatedYOLOLabelTool (src/labelling_tool.py): the press handler of the  *)
(* window.                                                                 *)
(***************************************************************************)
\* the handler starts with self.canvas.mapFrom(self, event.pos()); the
\* window has no canvas, so a left press with an image loaded raises before
\* the handler reads or writes anything else
mousePressEvent(p) ==
    /\ Dispatch
    /\ tool = "RotatedYOLOLabelTool"
    /\ raised' = IF current_image = NoImage THEN raised ELSE "AttributeError"
    /\ UNCHANGED <<tool, config, imageVars, labels, classVars, labeled_images,
                   selected_label, modeVars, gestureVars, angle_slider,
                   editVars, label_file>>

(***************************************************************************)
(* Mode switches.                                                          *)
(***************************************************************************)
set_draw_mode ==
    /\ Dispatch
    /\ drawing_mode' = TRUE
    /\ edit_mode' = FALSE
    /\ orientation_mode' = FALSE
    /\ UNCHANGED <<tool, config, imageVars, labels, classVars, labeled_images,
                   selected_label, gestureVars, angle_slider, editVars,
                   label_file, raised>>

\* a variant of set_edit_mode that does not uncheck the Draw mode
set_edit_mode_keeping_draw ==
    /\ Dispatch
    /\ edit_mode' = TRUE
    /\ orientation_mode' = FALSE
    /\ UNCHANGED <<tool, config, imageVars, labels, classVars, labeled_images,
                   selected_label, drawing_mode, gestureVars, angle_slider,
                   editVars, label_file, raised>>

set_edit_mode ==
    /\ Dispatch
    /\ drawing_mode' = FALSE
    /\ edit_mode' = TRUE
    /\ orientation_mode' = FALSE
    /\ UNCHANGED <<tool, config, imageVars, labels, classVars, labeled_images,
                   selected_label, gestureVars, angle_slider, editVars,
                   label_file, raised>>

set_orientation_mode ==
    /\ Dispatch
    /\ drawing_mode' = FALSE
    /\ edit_mode' = FALSE
    /\ orientation_mode' = TRUE
    /\ UNCHANGED <<tool, config, imageVars, labels, classVars, labeled_images,
                   selected_label, gestureVars, angle_slider, editVars,
                   label_file, raised>>

(***************************************************************************)
(* Label list and label info commands.                                     *)
(***************************************************************************)
\* a sequence without its element at 1-based position k
RemoveAt(sq, k) == [i \in 1..(Len(sq) - 1) |-> IF i < k THEN sq[i] ELSE sq[i + 1]]

\* itemClicked on row i of the labels list
select_label(i) ==
    /\ Dispatch
    /\ i \in 0..(Len(labels) - 1)
    /\ selected_label' = i
    /\ labels' = InfoLabels(labels, i, angle_slider)
    /\ InfoWidgets(labels, i)
    /\ raised' = IF current_image = NoImage THEN raised
                 ELSE Refresh(labels', classes)
    /\ UNCHANGED <<tool, config, imageVars, classes, labeled_images, modeVars,
                   gestureVars, label_file>>

delete_label ==
    /\ Dispatch
    /\ selected_label >= 0
    /\ IF selected_label >= Len(labels)
       THEN /\ raised' = "IndexError"
            /\ UNCHANGED <<labels, selected_label, angle_slider, editVars>>
       ELSE /\ labels' = RemoveAt(labels, selected_label + 1)
            /\ selected_label' = -1
            /\ raised' = Refresh(labels', classes)
            /\ IF raised' = NoException THEN ClearInfo
               ELSE UNCHANGED <<angle_slider, editVars>>
    /\ UNCHANGED <<tool, config, imageVars, classVars, labeled_images, modeVars,
                   gestureVars, label_file>>

\* the user answers Yes
clear_all_labels ==
    /\ Dispatch
    /\ labels # <<>>
    /\ labels' = <<>>
    /\ selected_label' = -1
    /\ raised' = Refresh(labels', classes)
    /\ IF raised' = NoException THEN ClearInfo
       ELSE UNCHANGED <<angle_slider, editVars>>
    /\ UNCHANGED <<tool, config, imageVars, classVars, labeled_images, modeVars,
                   gestureVars, label_file>>

\* float(text) succeeds
Parses(tok) == tok[1] # "bad"

\* a variant of UpdatedLabel that moves and grows the label by the typed
\* values
UpdatedLabel_relative ==
    Label(class_combo,
          ClampCenter(RAdd(labels[selected_label + 1].x_center, x_edit[2])),
          ClampCenter(RAdd(labels[selected_label + 1].y_center, y_edit[2])),
          ClampSize(RAdd(labels[selected_label + 1].width, width_edit[2])),
          ClampSize(RAdd(labels[selected_label + 1].height, height_edit[2])),
          Q(angle_slider))

\* the label update_label stores from the text fields, the class combo box
\* and the angle slider
UpdatedLabel ==
    Label(class_combo,
          ClampCenter(x_edit[2]),
          ClampCenter(y_edit[2]),
          ClampSize(width_edit[2]),
          ClampSize(height_edit[2]),
          Q(angle_slider))

\* a variant of update_label that stores the class and the angle before it
\* converts the text fields
update_label_class_first ==
    /\ Dispatch
    /\ selected_label >= 0
    /\ IF selected_label >= Len(labels)
       THEN /\ raised' = "IndexError"
            /\ UNCHANGED labels
       ELSE IF ~(Parses(x_edit) /\ Parses(y_edit) /\ Parses(width_edit)
                 /\ Parses(height_edit))
       THEN /\ labels' = [labels EXCEPT ![selected_label + 1] =
                            [@ EXCEPT !.class_id = class_combo,
                                      !.angle = Q(angle_slider)]]
            /\ raised' = raised
       ELSE /\ labels' = [labels EXCEPT ![selected_label + 1] = UpdatedLabel]
            /\ raised' = Refresh(labels', classes)
    /\ UNCHANGED <<tool, config, imageVars, classVars, labeled_images,
                   selected_label, modeVars, gestureVars, angle_slider,
                   editVars, label_file>>

update_label ==
    /\ Dispatch
    /\ selected_label >= 0
    /\ IF ~(Parses(x_edit) /\ Parses(y_edit) /\ Parses(width_edit)
            /\ Parses(height_edit))
       THEN UNCHANGED <<labels, raised>>
       ELSE IF selected_label >= Len(labels)
       THEN /\ raised' = "IndexError"
            /\ UNCHANGED labels
       ELSE /\ labels' = [labels EXCEPT ![selected_label + 1] = UpdatedLabel]
            /\ raised' = Refresh(labels', classes)
    /\ UNCHANGED <<tool, config, imageVars, classVars, labeled_images,
                   selected_label, modeVars, gestureVars, angle_slider,
                   editVars, label_file>>

\* what the user types into the four coordinate fields
TypedInputs ==
    { <<NumTok(<<3, 2>>), NumTok(<<-1, 2>>), NumTok(Zero), NumTok(Q(2))>>,
      <<NumTok(<<1, 4>>), NumTok(<<1, 4>>), NumTok(<<1, 4>>), BadTok>> }

type_text(t) ==
    /\ Dispatch
    /\ <<x_edit, y_edit, width_edit, height_edit>> # t
    /\ x_edit' = t[1]
    /\ y_edit' = t[2]
    /\ width_edit' = t[3]
    /\ height_edit' = t[4]
    /\ UNCHANGED <<tool, config, imageVars, labels, classVars, labeled_images,
                   selected_label, modeVars, gestureVars, angle_slider,
                   label_file, raised>>

\* the user moves the angle slider to v: update_angle_from_slider
slider_moved(v) ==
    /\ Dispatch
    /\ v # angle_slider
    /\ angle_slider' = v
    /\ IF selected_label < 0
       THEN UNCHANGED <<labels, raised>>
       ELSE IF selected_label >= Len(labels)
       THEN /\ raised' = "IndexError"
            /\ UNCHANGED labels
       ELSE /\ labels' = [labels EXCEPT ![selected_label + 1].angle = Q(v)]
            /\ raised' = Refresh(labels', classes)
    /\ UNCHANGED <<tool, config, imageVars, classVars, labeled_images,
                   selected_label, modeVars, gestureVars, editVars,
                   label_file>>

\* the user picks class i in the class combo box
choose_class(i) ==
    /\ Dispatch
    /\ i \in 0..(Len(classes) - 1)
    /\ i # class_combo
    /\ class_combo' = i
    /\ UNCHANGED <<tool, config, imageVars, labels, classes, labeled_images,
                   selected_label, modeVars, gestureVars, angle_slider,
                   editVars, label_file, raised>>

\* a variant of remove_class that renumbers the labels of later classes
remove_class_renumbering(row) ==
    /\ Dispatch
    /\ row \in 0..(Len(classes) - 1)
    /\ classes' = RemoveAt(classes, row + 1)
    /\ class_combo' = IF Len(classes') > 0 THEN 0 ELSE -1
    /\ config' = save_config(classes')
    /\ labels' = [i \in 1..Len(labels) |->
                    IF labels[i].class_id > row
                    THEN [labels[i] EXCEPT !.class_id = @ - 1]
                    ELSE labels[i]]
    /\ UNCHANGED <<tool, imageVars, labeled_images, selected_label,
                   modeVars, gestureVars, angle_slider, editVars, label_file,
                   raised>>

\* remove_class with row `row` current in the class list, answered Yes;
\* update_class_list refills the combo box
remove_class(row) ==
    /\ Dispatch
    /\ row \in 0..(Len(classes) - 1)
    /\ classes' = RemoveAt(classes, row + 1)
    /\ class_combo' = IF Len(classes') > 0 THEN 0 ELSE -1
    /\ config' = save_config(classes')
    /\ UNCHANGED <<tool, imageVars, labels, labeled_images, selected_label,
                   modeVars, gestureVars, angle_slider, editVars, label_file,
                   raised>>

(***************************************************************************)
(* Label files: load_yolo_labels and save_labels.                          *)
(***************************************************************************)
\* int(parts[0]) succeeds on an integer literal, float(part) on any number
IsInt(tok) == tok[1] = "int"
IsNum(tok) == tok[1] \in {"int", "num"}

\* a variant of LineParses that takes every line of 5 fields or more
LineParses_any_fields(line) == Len(line) >= 5

\* a line yields a label when it has at least 5 fields and none of the
\* fields it converts raises ValueError
LineParses(line) ==
    /\ Len(line) >= 5
    /\ IsInt(line[1])
    /\ \A k \in 2..5 : IsNum(line[k])
    /\ Len(line) > 5 => IsNum(line[6])

ParseLine(line) ==
    Label(line[1][2][1], line[2][2], line[3][2], line[4][2], line[5][2],
          IF Len(line) > 5 THEN line[6][2] ELSE Zero)

\* the labels of the lines read; an I/O error raised by the iteration ends
\* the loop (the outer except) with the labels appended so far
RECURSIVE ParseLines(_)
ParseLines(lines) ==
    IF lines = <<>> \/ Head(lines) = <<ReadError>> THEN <<>>
    ELSE IF LineParses(Head(lines))
    THEN <<ParseLine(Head(lines))>> \o ParseLines(Tail(lines))
    ELSE ParseLines(Tail(lines))

\* the labels load_yolo_labels leaves for index idx of the listed images
LoadedLabels(files, listed, idx) ==
    IF listed = <<>> \/ idx < 0 THEN <<>>
    ELSE IF files[listed[idx + 1]].exists
    THEN ParseLines(files[listed[idx + 1]].lines)
    ELSE <<>>

\* a variant of FormatLabel that writes the five fields of plain YOLO
FormatLabel_without_angle(l) ==
    <<IntTok(l.class_id), NumTok(Fmt6(l.x_center)), NumTok(Fmt6(l.y_center)),
      NumTok(Fmt6(l.width)), NumTok(Fmt6(l.height))>>

\* one line of save_labels
FormatLabel(l) ==
    <<IntTok(l.class_id), NumTok(Fmt6(l.x_center)), NumTok(Fmt6(l.y_center)),
      NumTok(Fmt6(l.width)), NumTok(Fmt6(l.height)), NumTok(Fmt6(l.angle))>>

\* save_labels writes anything
Saves(listed, idx) == idx >= 0 /\ listed # <<>>

\* the label files after save_labels
SavedFiles(files, listed, idx, ls) ==
    IF Saves(listed, idx)
    THEN [files EXCEPT ![listed[idx + 1]] =
            File([k \in 1..Len(ls) |-> FormatLabel(ls[k])])]
    ELSE files

\* labeled_images after save_labels
SavedProgress(done, listed, idx) ==
    IF Saves(listed, idx) THEN done \cup {listed[idx + 1]} ELSE done

save_labels ==
    /\ Dispatch
    /\ label_file' = SavedFiles(label_file, image_files, current_index, labels)
    /\ labeled_images' = SavedProgress(labeled_images, image_files,
                                       current_index)
    /\ config' = IF Saves(image_files, current_index)
                  THEN save_config(classes) ELSE config
    /\ UNCHANGED <<tool, imageVars, labels, classVars, selected_label,
                   modeVars, gestureVars, angle_slider, editVars, raised>>

(***************************************************************************)
(* Images: load_image and the navigation commands.                         *)
(***************************************************************************)
\* load_image for index idx, with the label files as they are in `files`.
\* A decoding failure is caught inside load_image and leaves the image, its
\* size and the labels as they were; so is an exception of the refreshes.
load_image(files, listed, idx) ==
    IF idx >= 0 /\ idx < Len(listed) /\ Loadable(listed[idx + 1])
    THEN /\ current_image' = listed[idx + 1]
         /\ image_width' = ImageSize(listed[idx + 1]).w
         /\ image_height' = ImageSize(listed[idx + 1]).h
         /\ labels' = LoadedLabels(files, listed, idx)
    ELSE UNCHANGED <<current_image, image_width, image_height, labels>>

prev_image ==
    /\ Dispatch
    /\ current_index > 0
    /\ label_file' = SavedFiles(label_file, image_files, current_index, labels)
    /\ labeled_images' = SavedProgress(labeled_images, image_files,
                                       current_index)
    /\ current_index' = current_index - 1
    /\ load_image(label_file', image_files, current_index')
    /\ config' = save_config(classes)
    /\ UNCHANGED <<tool, image_files, classVars, selected_label, modeVars,
                   gestureVars, angle_slider, editVars, raised>>

\* a variant of next_image that moves on without writing the labels
next_image_without_save ==
    /\ Dispatch
    /\ current_index < Len(image_files) - 1
    /\ current_index' = current_index + 1
    /\ load_image(label_file, image_files, current_index')
    /\ config' = save_config(classes)
    /\ UNCHANGED <<tool, image_files, classVars, labeled_images,
                   selected_label, modeVars, gestureVars, angle_slider,
                   editVars, label_file, raised>>

next_image ==
    /\ Dispatch
    /\ current_index < Len(image_files) - 1
    /\ label_file' = SavedFiles(label_file, image_files, current_index, labels)
    /\ labeled_images' = SavedProgress(labeled_images, image_files,
                                       current_index)
    /\ current_index' = current_index + 1
    /\ load_image(label_file', image_files, current_index')
    /\ config' = save_config(classes)
    /\ UNCHANGED <<tool, image_files, classVars, selected_label, modeVars,
                   gestureVars, angle_slider, editVars, raised>>

\* a variant of NextUnlabeled that stops at the last image
NextUnlabeled_without_wrap(files, listed, idx) ==
    LET free(i) == ~files[listed[i + 1]].exists
        after == {i \in (idx + 1)..(Len(listed) - 1) : free(i)}
    IN  IF after # {} THEN CHOOSE i \in after : \A j \in after : i <= j
        ELSE -1

\* the index skip_to_next_unlabeled moves to, or -1: the first image without
\* a label file after the current one, then the first one before it
NextUnlabeled(files, listed, idx) ==
    LET free(i) == ~files[listed[i + 1]].exists
        after == {i \in (idx + 1)..(Len(listed) - 1) : free(i)}
        before == {i \in 0..(idx - 1) : free(i)}
    IN  IF after # {} THEN CHOOSE i \in after : \A j \in after : i <= j
        ELSE IF before # {} THEN CHOOSE i \in before : \A j \in before : i <= j
        ELSE -1

skip_to_next_unlabeled ==
    /\ Dispatch
    /\ image_files # <<>>
    /\ label_file' = SavedFiles(label_file, image_files, current_index, labels)
    /\ labeled_images' = SavedProgress(labeled_images, image_files,
                                       current_index)
    /\ LET target == NextUnlabeled(label_file', image_files, current_index)
       IN  IF target >= 0
           THEN /\ current_index' = target
                /\ load_image(label_file', image_files, target)
           ELSE UNCHANGED <<current_index, current_image, image_width,
                            image_height, labels>>
    /\ config' = save_config(classes)
    /\ UNCHANGED <<tool, image_files, classVars, selected_label, modeVars,
                   gestureVars, angle_slider, editVars, raised>>

\* the sorted list of the image files of the directory
Listing == [k \in 1..NumImages |-> k - 1]

\* a variant of open_image_dir whose scan adds to labeled_images without
\* emptying it first
open_image_dir_without_clear ==
    /\ Dispatch
    /\ image_files' = Listing
    /\ labeled_images' = labeled_images
                            \cup {i \in Images : label_file[i].exists}
    /\ LET unlabeled == {k \in 0..(NumImages - 1) : ~label_file[Listing[k + 1]].exists}
       IN  current_index' = IF unlabeled # {}
                            THEN CHOOSE k \in unlabeled :
                                    \A j \in unlabeled : k <= j
                            ELSE 0
    /\ load_image(label_file, image_files', current_index')
    /\ config' = save_config(classes)
    /\ UNCHANGED <<tool, classVars, selected_label, modeVars, gestureVars,
                   angle_slider, editVars, label_file, raised>>

\* the user picks the image directory
open_image_dir ==
    /\ Dispatch
    /\ image_files' = Listing
    /\ labeled_images' = {i \in Images : label_file[i].exists}
    /\ LET unlabeled == {k \in 0..(NumImages - 1) : ~label_file[Listing[k + 1]].exists}
       IN  current_index' = IF unlabeled # {}
                            THEN CHOOSE k \in unlabeled :
                                    \A j \in unlabeled : k <= j
                            ELSE 0
    /\ load_image(label_file, image_files', current_index')
    /\ config' = save_config(classes)
    /\ UNCHANGED <<tool, classVars, selected_label, modeVars, gestureVars,
                   angle_slider, editVars, label_file, raised>>

\* the file of one image after the export loop visited it: its labels are
\* loaded and written back
Rewritten(f) ==
    LET ls == IF f.exists THEN ParseLines(f.lines) ELSE <<>>
    IN  File([k \in 1..Len(ls) |-> FormatLabel(ls[k])])

\* the 0-based index at which the export loop's load_yolo_labels raises in
\* update_labels_list, or the number of images when it never does
ExportStop(files, listed, cls) ==
    LET bad == {i \in 0..(Len(listed) - 1) :
                  /\ files[listed[i + 1]].exists
                  /\ ListRaises(ParseLines(files[listed[i + 1]].lines), cls)}
    IN  IF bad = {} THEN Len(listed)
        ELSE CHOOSE i \in bad : \A j \in bad : i <= j

\* an image directory is open and the user picks an export directory
export_all_labels ==
    /\ Dispatch
    /\ image_files # <<>>
    /\ LET n == Len(image_files)
           stop == ExportStop(label_file, image_files, classes)
       IN  /\ label_file' =
                [i \in Images |->
                    IF \E k \in 0..(stop - 1) : image_files[k + 1] = i
                    THEN Rewritten(label_file[i]) ELSE label_file[i]]
           /\ labeled_images' = labeled_images \cup
                {image_files[k + 1] : k \in 0..(stop - 1)}
           /\ IF stop < n
              THEN /\ current_index' = stop
                   /\ labels' = LoadedLabels(label_file, image_files, stop)
                   /\ raised' = "IndexError"
                   /\ UNCHANGED <<current_image, image_width, image_height>>
              ELSE /\ current_index' = n - 1
                   /\ raised' = raised
                   /\ IF Loadable(image_files[n])
                      THEN load_image(label_file', image_files, n - 1)
                      ELSE /\ labels' = LoadedLabels(label_file', image_files,
                                                     n - 1)
                           /\ UNCHANGED <<current_image, image_width,
                                          image_height>>
    /\ config' = save_config(classes)
    /\ UNCHANGED <<tool, image_files, classVars, selected_label, modeVars,
                   gestureVars, angle_slider, editVars>>

(***************************************************************************)
(* The next-state relation: one command or pointer event at a time.        *)
(***************************************************************************)
Next ==
    \/ open_image_dir
    \/ \E p \in Points : handle_mouse_press(p)
    \/ \E p \in Points : handle_mouse_move(p)
    \/ handle_mouse_release
    \/ \E p \in Points : mousePressEvent(p)
    \/ set_draw_mode
    \/ set_edit_mode
    \/ set_orientation_mode
    \/ \E i \in 0..(Len(labels) - 1) : select_label(i)
    \/ delete_label
    \/ clear_all_labels
    \/ update_label
    \/ \E t \in TypedInputs : type_text(t)
    \/ \E v \in SliderInputs : slider_moved(v)
    \/ \E i \in 0..(Len(classes) - 1) : choose_class(i)
    \/ \E i \in 0..(Len(classes) - 1) : remove_class(i)
    \/ save_labels
    \/ prev_image
    \/ next_image
    \/ skip_to_next_unlabeled
    \/ export_all_labels

Spec == Init /\ [][Next]_vars

(***************************************************************************)
(* Properties of the label document and of the interaction state.          *)
(***************************************************************************)
\* a label inside the normalised ranges
InRange(l) ==
    /\ RLe(Zero, l.x_center) /\ RLe(l.x_center, One)
    /\ RLe(Zero, l.y_center) /\ RLe(l.y_center, One)
    /\ RLe(MinSize, l.width) /\ RLe(l.width, One)
    /\ RLe(MinSize, l.height) /\ RLe(l.height, One)

\* no gesture is active
Idle == ~drawing /\ ~dragging /\ ~resizing /\ ~rotating

\* a pointer event of YOLOLabelTool
PointerEvent ==
    \/ \E p \in Points : handle_mouse_press(p)
    \/ \E p \in Points : handle_mouse_move(p)
    \/ handle_mouse_release

\* an explicit mode-switch command
ModeSwitch == set_draw_mode \/ set_edit_mode \/ set_orientation_mode

\* C1: after any sequence of loads, gestures and edits every label of the
\* document has x_center and y_center in [0, 1] and width and height in
\* [0.001, 1].
C1_LabelsInRange == \A i \in 1..Len(labels) : InRange(labels[i])

\* C2: in every reachable state selected_label is -1 or an index into the
\* current labels list.
C2_SelectionValid ==
    selected_label = -1 \/ (selected_label >= 0 /\ selected_label < Len(labels))

\* C3: no pointer event of YOLOLabelTool, after whatever commands, makes its
\* handler raise an exception.
C3_PointerNeverRaises ==
    [][(tool = "YOLOLabelTool" /\ PointerEvent) => raised' = NoException]_vars

\* C4: after every release no gesture flag is true, and a release that ends
\* a drag, a resize or a rotate changes no label.
C4_ReleaseEndsGesture ==
    [][handle_mouse_release =>
          /\ ~drawing' /\ ~dragging' /\ ~resizing' /\ ~rotating'
          /\ (dragging \/ resizing \/ rotating) => labels' = labels]_vars

\* C5: in every reachable state at most one of the gesture flags drawing,
\* dragging, resizing, rotating is true.
C5_AtMostOneGesture ==
    /\ ~(drawing /\ dragging) /\ ~(drawing /\ resizing) /\ ~(drawing /\ rotating)
    /\ ~(dragging /\ resizing) /\ ~(dragging /\ rotating)
    /\ ~(resizing /\ rotating)

\* C6: the mode does not change while a gesture is active: a step taken
\* while a gesture flag is true leaves the three mode flags as they are.
C6_ModeFixedDuringGesture == [][~Idle => UNCHANGED modeVars]_vars

\* C7: in every reachable state exactly one of drawing_mode, edit_mode and
\* orientation_mode is true, and the initial state is Draw mode with no
\* gesture active and no label selected.
C7_ExactlyOneMode ==
    /\ \/ drawing_mode /\ ~edit_mode /\ ~orientation_mode
       \/ ~drawing_mode /\ edit_mode /\ ~orientation_mode
       \/ ~drawing_mode /\ ~edit_mode /\ orientation_mode
    /\ nsteps = 0 => drawing_mode /\ Idle /\ selected_label = -1

\* C7, its case: the Rotate mode, entered by a mode switch, with a rotate
\* gesture started in it
C7_ModeSwitched == orientation_mode /\ rotating /\ selected_label >= 0

C9_ReleaseCommitsOneLabel ==
    [][(handle_mouse_release /\ drawing /\ drawing_mode) =>
          /\ Len(labels') = Len(labels) + 1
          /\ SubSeq(labels', 1, Len(labels)) = labels
          /\ labels'[Len(labels')].class_id =
                (IF class_combo < 0 THEN 0 ELSE class_combo)
          /\ selected_label' = selected_label
          /\ ~drawing' /\ ~dragging' /\ ~resizing' /\ ~rotating']_vars

\* the label the Draw gesture from s to p commits on an image of W x H pixels
DrawScenario(c, s, p, W, H) ==
    Label(c,
          ClampCenter(RDiv(RAdd(s[1], p[1]), Q(2 * W))),
          ClampCenter(RDiv(RAdd(s[2], p[2]), Q(2 * H))),
          ClampSize(RDiv(RAbs(RSub(p[1], s[1])), Q(W))),
          ClampSize(RDiv(RAbs(RSub(p[2], s[2])), Q(H))),
          Zero)

\* C10: the release of a Draw gesture from start_point to p that spans a
\* rectangle appends the label with x_center = (s.x + p.x) / (2W), y_center =
\* (s.y + p.y) / (2H), width = |p.x - s.x| / W, height = |p.y - s.y| / H,
\* clamped, and angle 0, whatever came before the gesture.
C10_DrawCommitsScenario ==
    [][\A p \in Points :
          (/\ handle_mouse_release
           /\ drawing /\ drawing_mode
           /\ temp_rect = NormalizedRect(start_point, p)
           /\ RectTrue(temp_rect))
          => labels' = Append(labels,
                DrawScenario(IF class_combo < 0 THEN 0 ELSE class_combo,
                             start_point, p, image_width, image_height))]_vars

\* the selected label, when selected_label indexes the list
Selected == labels[selected_label + 1]

\* a label is selected: selected_label indexes the labels list
HasSelection == selected_label >= 0 /\ selected_label < Len(labels)

\* the centre of a label in pixels
CenterOf(l) == <<RMul(l.x_center, Q(image_width)),
                 RMul(l.y_center, Q(image_height))>>

\* C11: in Edit mode with a label selected, a press within tolerance of one
\* of the selected label's 8 handles starts a resize with the index of the
\* first such handle and a copy of the label as snapshot, even inside the
\* box; otherwise a press inside the selected label's unrotated box starts a
\* drag with drag_offset = p - centre; both leave selected_label and every
\* label as they are.
C11_PressStartsResizeOrDrag ==
    [][\A p \in Points :
          (/\ current_image # NoImage
           /\ edit_mode
           /\ HasSelection
           /\ handle_mouse_press(p))
          => /\ FirstHandle(Selected, image_width, image_height, p) >= 0
                => /\ resizing'
                   /\ resize_handle' =
                         FirstHandle(Selected, image_width, image_height, p)
                   /\ original_label' = Selected
                   /\ dragging' = dragging
                   /\ labels' = labels
                   /\ selected_label' = selected_label
             /\ (/\ FirstHandle(Selected, image_width, image_height, p) < 0
                 /\ BoxContains(Selected, image_width, image_height, p))
                => /\ dragging'
                   /\ drag_offset' = <<RSub(p[1], CenterOf(Selected)[1]),
                                        RSub(p[2], CenterOf(Selected)[2])>>
                   /\ original_label' = Selected
                   /\ resizing' = resizing
                   /\ labels' = labels
                   /\ selected_label' = selected_label]_vars

\* C11, its case: a resize started on a handle that lies inside the box of
\* the selected label, the snapshot being a copy of that label
C11_ResizeStartedInsideBox ==
    /\ edit_mode
    /\ resizing
    /\ ~dragging
    /\ HasSelection
    /\ resize_handle >= 0
    /\ original_label = Selected
    /\ BoxContains(Selected, image_width, image_height,
                   calculate_handles(Selected, image_width,
                                     image_height)[resize_handle + 1])

\* a press at p in Edit mode starts a resize or a drag of the selected label
StartsGesture(p) ==
    /\ HasSelection
    /\ \/ FirstHandle(Selected, image_width, image_height, p) >= 0
       \/ BoxContains(Selected, image_width, image_height, p)

\* C12: in Edit mode every press that starts neither a resize nor a drag,
\* a press made while no label is selected included, selects the first label
\* in list order whose unrotated box contains p, or leaves the selection as
\* it is when there is none; it starts no gesture and changes no label.
C12_PressSelectsFirstContaining ==
    [][\A p \in Points :
          (/\ current_image # NoImage
           /\ edit_mode
           /\ selected_label < Len(labels)
           /\ ~StartsGesture(p)
           /\ handle_mouse_press(p))
          => /\ selected_label' =
                   (IF FirstContaining(labels, image_width, image_height, p) >= 0
                    THEN FirstContaining(labels, image_width, image_height, p)
                    ELSE selected_label)
             /\ UNCHANGED <<drawing, dragging, resizing, rotating>>
             /\ labels' = labels]_vars

\* the 0-based index of the first handle of the label whose Euclidean
\* distance to p is below the tolerance, or -1
FirstWithinDistance(label, p) ==
    FirstOf({i \in 1..8 :
        WithinDistance(p, calculate_handles(label, image_width,
                                            image_height)[i])})

\* C13: a press in Edit mode hits a handle of the selected label exactly when
\* the Euclidean distance between p and the handle is below 10 pixels, and of
\* several such handles the one with the lowest index is chosen: the press
\* starts a resize with that handle, and a press farther than 10 pixels from
\* every handle starts no resize.
C13_HandleHitByDistance ==
    [][\A p \in Points :
          (/\ current_image # NoImage
           /\ edit_mode
           /\ HasSelection
           /\ handle_mouse_press(p))
          => IF FirstWithinDistance(Selected, p) >= 0
             THEN /\ resizing'
                  /\ resize_handle' = FirstWithinDistance(Selected, p)
             ELSE UNCHANGED <<resizing, resize_handle>>]_vars

\* C14: every move while dragging sets the centre of the selected label to
\* (p - drag_offset) divided by the image dimensions and clamped to [0, 1],
\* and changes nothing else: the label's width, height, angle and class_id
\* and every other label stay as they are.
C14_DragMovesCenterOnly ==
    [][\A p \in Points :
          (/\ dragging
           /\ edit_mode
           /\ HasSelection
           /\ handle_mouse_move(p))
          => labels' = [labels EXCEPT ![selected_label + 1] =
                           DragLabel(Selected, p)]]_vars

\* C15: a move while resizing with a corner handle (0-3) sets x_center,
\* y_center, width and height of the selected label to those of the
\* axis-aligned bounding box of the snapshot's four corners with the dragged
\* corner replaced by p, clamped, and leaves its angle and class_id and
\* every other label as they are.
C15_CornerResizeBoundingBox ==
    [][\A p \in Points :
          (/\ resizing
           /\ ~dragging
           /\ edit_mode
           /\ HasSelection
           /\ resize_handle \in 0..3
           /\ handle_mouse_move(p))
          => labels' = [labels EXCEPT ![selected_label + 1] =
                           ClampLabel(ResizeCorner(Selected, original_label,
                                                   resize_handle, p))]]_vars

\* the y coordinate, in pixels, of the top edge of the unrotated box of l
TopEdge(l) ==
    RSub(RMul(l.y_center, Q(image_height)),
         RHalf(RMul(l.height, Q(image_height))))

\* C16: a move while resizing with an edge handle (4-7) rescales one
\* dimension of the snapshot, the height for the handles 4 and 6 and the
\* width for 5 and 7; the other dimension, x_center, y_center and angle keep
\* their snapshot values, and a move of the top edge handle (4) to a point
\* above the snapshot's top edge makes the height larger than the snapshot's.
C16_EdgeResizeOneDimension ==
    [][\A p \in Points :
          (/\ resizing
           /\ ~dragging
           /\ edit_mode
           /\ HasSelection
           /\ resize_handle \in 4..7
           /\ handle_mouse_move(p))
          => /\ labels'[selected_label + 1].x_center = original_label.x_center
             /\ labels'[selected_label + 1].y_center = original_label.y_center
             /\ labels'[selected_label + 1].angle = original_label.angle
             /\ resize_handle \in {4, 6}
                => labels'[selected_label + 1].width = original_label.width
             /\ resize_handle \in {5, 7}
                => labels'[selected_label + 1].height = original_label.height
             /\ (resize_handle = 4 /\ RLt(p[2], TopEdge(original_label)))
                => RLt(original_label.height,
                       labels'[selected_label + 1].height)]_vars

\* the label a drag or resize move to p stores in place of the label l
MovedLabel(l, p) ==
    IF dragging THEN DragLabel(l, p)
    ELSE ClampLabel(ResizeCorner(l, original_label, resize_handle, p))

\* the labels with the selected one replaced by l
WithSelected(ls, l) == [ls EXCEPT ![selected_label + 1] = l]

\* the labels and the slider value after a drag or resize move to p made
\* with the labels ls and the slider at v
MovedLabels(ls, v, p) ==
    InfoLabels(WithSelected(ls, MovedLabel(ls[selected_label + 1], p)),
               selected_label, v)
MovedSlider(ls, p) ==
    SliderClamp(Trunc(MovedLabel(ls[selected_label + 1], p).angle))

\* C17: the snapshot taken by the press that starts a drag or a resize is
\* written by nothing but a press, and the labels after a move to p do not
\* depend on the moves made before it: a move to any q followed by the move
\* to p leaves the labels the move to p alone leaves.
C17_MoveDependsOnSnapshotOnly ==
    [][/\ original_label' # original_label
             => \E p \in Points : handle_mouse_press(p)
       /\ \A p \in Points :
             (/\ dragging \/ resizing
              /\ edit_mode
              /\ HasSelection
              /\ handle_mouse_move(p)
              /\ raised' = NoException)
             => \A q \in Points :
                   MovedLabels(MovedLabels(labels, angle_slider, q),
                               MovedSlider(labels, q), p) = labels']_vars

\* C17, its case: a corner resize has moved the selected label away from
\* its snapshot
C17_ResizedFromSnapshot ==
    /\ edit_mode
    /\ resizing
    /\ ~dragging
    /\ HasSelection
    /\ resize_handle \in 0..3
    /\ raised = NoException
    /\ Selected.width # original_label.width

\* C18: a move to p while rotating overwrites the angle of the selected
\* label with atan2(p.y - center.y, p.x - center.x) in degrees, whatever the
\* angle was, and changes no other field of any label.
C18_RotateStoresAtan2 ==
    [][\A p \in Points :
          (/\ rotating
           /\ orientation_mode
           /\ HasSelection
           /\ handle_mouse_move(p))
          => labels' = [labels EXCEPT ![selected_label + 1] =
                           RotateLabel(Selected, p)]]_vars

\* C19: a move that arrives while no gesture is active, in any mode, changes
\* neither the labels, nor selected_label, nor the mode, nor a gesture flag.
C19_IdleMoveChangesNothing ==
    [][\A p \in Points :
          (Idle /\ handle_mouse_move(p))
          => UNCHANGED <<labels, selected_label, modeVars, drawing, dragging,
                         resizing, rotating>>]_vars

\* C19, its case: Edit mode with an image and no gesture active, no label
\* selected, and a pointer position that lies inside a label
C19_IdleOverLabel ==
    /\ Idle
    /\ edit_mode
    /\ current_image # NoImage
    /\ selected_label = -1
    /\ \E p \in Points :
          FirstContaining(labels, image_width, image_height, p) >= 0

\* C20: a move while drawing only updates the preview rectangle: the labels
\* list is the same before and after it.
C20_DrawMoveKeepsLabels ==
    [][\A p \in Points :
          (drawing /\ handle_mouse_move(p)) => labels' = labels]_vars

\* ---------------------------------------------------------------------
\* C21  Selecting a label, from the list (select_label) or with a press
\* on the canvas, changes no label: in particular the stored angle is
\* not wrapped, clamped or truncated by the selection.
C21_SelectKeepsLabels ==
    [][((\E i \in 0..(Len(labels) - 1) : select_label(i))
        \/ (\E p \in Points : ~drawing_mode /\ handle_mouse_press(p)))
       => labels' = labels]_vars

\* ---------------------------------------------------------------------
\* a line with at least 5 fields, all of them numbers and the first one an
\* integer
WellFormed(line) ==
    /\ Len(line) >= 5
    /\ line[1][1] = "int"
    /\ \A k \in 2..Len(line) : line[k][1] \in {"int", "num"}

\* the label such a line stands for: the angle is 0.0 without a 6th field
LabelOfLine(line) ==
    [class_id |-> line[1][2][1], x_center |-> line[2][2],
     y_center |-> line[3][2], width |-> line[4][2], height |-> line[5][2],
     angle |-> IF Len(line) >= 6 THEN line[6][2] ELSE Zero]

LabelsOfLines(lines) ==
    [k \in 1..Len(SelectSeq(lines, WellFormed)) |->
        LabelOfLine(SelectSeq(lines, WellFormed)[k])]

\* the file can be read to its end
ReadsToEnd(f) == \A k \in 1..Len(f.lines) : f.lines[k] # <<ReadError>>

\* a command that loads the image at the index it moves to
LoadsImage ==
    /\ open_image_dir \/ prev_image \/ next_image
    /\ Loadable(image_files'[current_index' + 1])

\* the label file of the image at the index after the step
FileLoaded == label_file'[image_files'[current_index' + 1]]

\* C22  Loading a label file that can be read yields exactly one label, in
\* file order, for each line with at least 5 fields that all parse as
\* numbers (class_id as an integer); every other line is skipped without
\* raising and without ending the parse; the angle of a 5-field line is 0.
C22_LoadKeepsWellFormedLines ==
    [][(LoadsImage /\ FileLoaded.exists /\ ReadsToEnd(FileLoaded))
       => /\ labels' = LabelsOfLines(FileLoaded.lines)
          /\ raised' = NoException]_vars

\* the labels of image 1 were loaded from among the malformed lines of its
\* file: two labels out of six lines, the second one from a 5-field line
C22_LoadedAmongMalformed ==
    /\ current_image = 1
    /\ label_file[1] = InitialFile(1)
    /\ Len(label_file[1].lines) = 6
    /\ Len(labels) = 2
    /\ labels = LabelsOfLines(label_file[1].lines)
    /\ labels[1].angle = <<3, 2>>
    /\ labels[2].angle = Zero

\* ---------------------------------------------------------------------
\* two numbers are equal to 6 decimal places
SameTo6(a, b) == Fmt6(a) = Fmt6(b)

\* the labels `back` are the labels `ls`, field by field, to 6 decimals
RoundTrip(back, ls) ==
    /\ Len(back) = Len(ls)
    /\ \A k \in 1..Len(ls) :
        /\ back[k].class_id = ls[k].class_id
        /\ SameTo6(back[k].x_center, ls[k].x_center)
        /\ SameTo6(back[k].y_center, ls[k].y_center)
        /\ SameTo6(back[k].width, ls[k].width)
        /\ SameTo6(back[k].height, ls[k].height)
        /\ SameTo6(back[k].angle, ls[k].angle)

\* C23  Round trip: loading the file save_labels has just written yields as
\* many labels as were saved, in the same order, each with the same class_id
\* and the other five fields equal to the saved ones to 6 decimal places; the
\* file holds one line per saved label and nothing of its earlier content.
C23_SaveLoadRoundTrip ==
    [][(save_labels /\ Saves(image_files, current_index))
       => /\ Len(label_file'[image_files[current_index + 1]].lines)
               = Len(labels)
          /\ RoundTrip(LoadedLabels(label_file', image_files, current_index),
                       labels)]_vars

\* the six lines of image 1's file were replaced by its three labels: the
\* first one saved with its angle of 1.5 degrees, the last one a drawn box
\* whose x_center 31/300 was written as 0.103333
C23_SavedOverMalformed ==
    /\ label_file[1].exists
    /\ Len(InitialFile(1).lines) = 6
    /\ Len(label_file[1].lines) = 3
    /\ label_file[1].lines[1][6] = NumTok(<<3, 2>>)
    /\ label_file[1].lines[3][2] = NumTok(<<103333, 1000000>>)
    /\ Len(labels) = 3
    /\ labels[3].x_center = <<31, 300>>

\* ---------------------------------------------------------------------
\* C24  When reading the label file of the image being loaded fails with an
\* I/O error, the labels are left exactly as they were before the load.
C24_FailedLoadKeepsLabels ==
    [][(LoadsImage /\ FileLoaded.exists /\ ~ReadsToEnd(FileLoaded))
       => labels' = labels]_vars

\* ---------------------------------------------------------------------
\* C25  Every label's class_id is a non-negative integer in every reachable
\* state, and listing the labels never raises on a class_id outside the
\* class table.
C25_ClassIdNonNegative ==
    /\ \A i \in 1..Len(labels) : labels[i].class_id >= 0
    /\ raised # "IndexError"

Bounded(lo, hi, v) == IF RLt(v, lo) THEN lo ELSE IF RLt(hi, v) THEN hi ELSE v

\* all four coordinate fields hold numbers
FieldsParse ==
    Parses(x_edit) /\ Parses(y_edit) /\ Parses(width_edit)
    /\ Parses(height_edit)

\* C27  Clamp idempotence: update_label leaves the selected label with the
\* typed x_center and y_center brought into [0,1] and the typed width and
\* height brought into [0.001,1], and applying update_label again with the
\* same input would store the same label.
C27_UpdateClampsIdempotently ==
    [][(update_label /\ HasSelection /\ FieldsParse)
       => /\ Selected'.x_center = Bounded(Zero, One, x_edit[2])
          /\ Selected'.y_center = Bounded(Zero, One, y_edit[2])
          /\ Selected'.width = Bounded(<<1, 1000>>, One, width_edit[2])
          /\ Selected'.height = Bounded(<<1, 1000>>, One, height_edit[2])
          /\ FieldsParse'
          /\ HasSelection'
          /\ UpdatedLabel' = Selected']_vars

\* update_label was applied to the input 1.5, -0.5, 0, 2: every field is
\* out of range and the label holds the clamped values 1, 0, 0.001, 1
C27_UpdatedOutOfRange ==
    /\ HasSelection
    /\ x_edit = NumTok(<<3, 2>>)
    /\ y_edit = NumTok(<<-1, 2>>)
    /\ width_edit = NumTok(Zero)
    /\ height_edit = NumTok(Q(2))
    /\ Selected.x_center = One
    /\ Selected.y_center = Zero
    /\ Selected.width = <<1, 1000>>
    /\ Selected.height = One

\* ---------------------------------------------------------------------
\* C28  After load_config the class table is the list stored under
\* "classes" in the config file when that list is not empty, and the single
\* class "object" when the file is missing, unreadable or not valid JSON,
\* or stores no class.
C28_LoadConfigClasses ==
    nsteps = 0 =>
        classes = IF config.kind = "json" /\ Len(config.classes) > 0
                  THEN config.classes
                  ELSE <<"object">>

\* the statement without the case of an empty list: the class table is the
\* stored list whenever the file is a JSON object
C28_StoredListAlways ==
    nsteps = 0 =>
        classes = IF config.kind = "json" THEN config.classes
                  ELSE <<"object">>

\* load_config has read a config file that stores an empty list
C28_LoadedEmptyList ==
    /\ nsteps = 0
    /\ config = Config("json", <<>>)
    /\ classes = <<"object">>

\* ---------------------------------------------------------------------
\* the multiples of 90 degrees the slider can give
RightAngles == {-180, -90, 0, 90, 180}

\* The corner and handle computations are followed on their own from the
\* state in which the directory is open and the label of image 0 selected:
\* the user types a centre and a size, applies them with update_label, and
\* turns the label with the slider.
GeomTyped ==
    {<<NumTok(x), NumTok(y), NumTok(w), NumTok(h)>> :
        x \in {Zero, <<3, 10>>}, y \in {<<7, 20>>, One},
        w \in {<<1, 1000>>, <<1, 2>>}, h \in {<<3, 10>>, One}}

GeomAngles == RightAngles \cup {30}

\* the state with the directory open on image 0 and its label selected,
\* after open_image_dir and select_label(0)
SelectedInit ==
    /\ tool = "YOLOLabelTool"
    /\ image_files = Listing
    /\ current_index = 0
    /\ current_image = 0
    /\ image_width = ImageSize(0).w
    /\ image_height = ImageSize(0).h
    /\ label_file = [i \in Images |-> InitialFile(i)]
    /\ labels = ParseLines(InitialFile(0).lines)
    /\ config = save_config(<<"object">>)
    /\ classes = <<"object">>
    /\ labeled_images = {i \in Images : InitialFile(i).exists}
    /\ selected_label = 0
    /\ drawing_mode = TRUE
    /\ edit_mode = FALSE
    /\ orientation_mode = FALSE
    /\ drawing = FALSE
    /\ dragging = FALSE
    /\ resizing = FALSE
    /\ rotating = FALSE
    /\ start_point = Pt(0, 0)
    /\ temp_rect = NoRect
    /\ resize_handle = -1
    /\ drag_offset = Pt(0, 0)
    /\ original_label = Label(0, Zero, Zero, Zero, Zero, Zero)
    /\ angle_slider = 0
    /\ class_combo = 0
    /\ x_edit = NumTok(labels[1].x_center)
    /\ y_edit = NumTok(labels[1].y_center)
    /\ width_edit = NumTok(labels[1].width)
    /\ height_edit = NumTok(labels[1].height)
    /\ raised = NoException
    /\ nsteps = 2

GeomInit == SelectedInit

GeomNext ==
    \/ \E t \in GeomTyped : type_text(t)
    \/ update_label
    \/ \E v \in GeomAngles : slider_moved(v)

GeometrySpec == GeomInit /\ [][GeomNext]_vars

\* the label l turned to the angle a
TurnedTo(l, a) == [l EXCEPT !.angle = Q(a)]

\* the corners of the axis-aligned w x h box centred at c: top-left,
\* top-right, bottom-right, bottom-left (y grows downwards)
AxisAligned(c, w, h) ==
    << <<RSub(c[1], RHalf(w)), RSub(c[2], RHalf(h))>>,
       <<RAdd(c[1], RHalf(w)), RSub(c[2], RHalf(h))>>,
       <<RAdd(c[1], RHalf(w)), RAdd(c[2], RHalf(h))>>,
       <<RSub(c[1], RHalf(w)), RAdd(c[2], RHalf(h))>> >>

\* the centroid of four points
Centroid(cs) ==
    <<RDiv(RAdd(RAdd(cs[1][1], cs[2][1]), RAdd(cs[3][1], cs[4][1])), Q(4)),
      RDiv(RAdd(RAdd(cs[1][2], cs[2][2]), RAdd(cs[3][2], cs[4][2])), Q(4))>>

\* C29  For every label of the document, the corners computed for its
\* centre, width and height at angle 0 are the axis-aligned corners in the
\* order top-left, top-right, bottom-right, bottom-left, and at every
\* multiple of 90 degrees the centroid of the four corners is the centre.
C29_CornersAroundCenter ==
    \A i \in 1..Len(labels) :
        /\ calculate_rotated_corners(TurnedTo(labels[i], 0), image_width,
                                     image_height)
             = AxisAligned(CenterOf(labels[i]),
                           RMul(labels[i].width, Q(image_width)),
                           RMul(labels[i].height, Q(image_height)))
        /\ labels[i].angle \in {Q(a) : a \in RightAngles}
            => Centroid(calculate_rotated_corners(labels[i], image_width,
                                                  image_height))
                 = CenterOf(labels[i])

\* a label that is not square in pixels was turned to -90 degrees, and its
\* corners are those of the box with width and height exchanged
C29_QuarterTurned ==
    /\ HasSelection
    /\ Selected.angle = Q(-90)
    /\ RMul(Selected.width, Q(image_width))
         # RMul(Selected.height, Q(image_height))
    /\ calculate_rotated_corners(Selected, image_width, image_height)[1]
         = <<RSub(CenterOf(Selected)[1],
                  RHalf(RMul(Selected.height, Q(image_height)))),
             RAdd(CenterOf(Selected)[2],
                  RHalf(RMul(Selected.width, Q(image_width))))>>

\* ---------------------------------------------------------------------
\* the point halfway between p and q
Midpoint(p, q) == <<RHalf(RAdd(p[1], q[1])), RHalf(RAdd(p[2], q[2]))>>

\* handles 4..7 of the 8 handles hs are the midpoints of the corner pairs
\* (0,1), (1,2), (2,3) and (3,0)
EdgeMidpoints(hs) ==
    /\ Len(hs) = 8
    /\ hs[5] = Midpoint(hs[1], hs[2])
    /\ hs[6] = Midpoint(hs[2], hs[3])
    /\ hs[7] = Midpoint(hs[3], hs[4])
    /\ hs[8] = Midpoint(hs[4], hs[1])

\* C30  calculate_handles returns exactly 8 points for every label of the
\* document: the four corners, then the midpoints of the top, right, bottom
\* and left edges, so that handle 4 is the midpoint of corners 0 and 1,
\* handle 5 of corners 1 and 2, handle 6 of corners 2 and 3 and handle 7 of
\* corners 3 and 0, at the label's own angle and at angle 0.
C30_EdgeHandlesAreMidpoints ==
    \A i \in 1..Len(labels) :
        /\ EdgeMidpoints(calculate_handles(labels[i], image_width,
                                           image_height))
        /\ EdgeMidpoints(calculate_handles(TurnedTo(labels[i], 0),
                                           image_width, image_height))
        /\ calculate_handles(TurnedTo(labels[i], 0), image_width,
                             image_height)[5]
             = <<CenterOf(labels[i])[1],
                 RSub(CenterOf(labels[i])[2],
                      RHalf(RMul(labels[i].height, Q(image_height))))>>

\* the handles of a label turned by 30 degrees were computed, the label
\* being as narrow as a label can be
C30_EdgeHandleOfRotated ==
    /\ HasSelection
    /\ Selected.angle = Q(30)
    /\ Selected.width = <<1, 1000>>
    /\ Selected.height = One
    /\ calculate_handles(Selected, image_width, image_height)[5]
         # calculate_handles(TurnedTo(Selected, 0), image_width,
                             image_height)[5]

\* ---------------------------------------------------------------------
\* C31  In every reachable state with an image directory open, the labels
\* in memory and the image dimensions are those of the image at
\* current_index: the document shown was loaded from that image, also after
\* a switch to an image that fails to load.
C31_DocumentOfCurrentImage ==
    current_index >= 0 =>
        /\ current_image = image_files[current_index + 1]
        /\ image_width = ImageSize(image_files[current_index + 1]).w
        /\ image_height = ImageSize(image_files[current_index + 1]).h

\* ---------------------------------------------------------------------
\* a command that loads or saves a label file
TouchesLabelFiles ==
    \/ save_labels
    \/ prev_image
    \/ next_image
    \/ skip_to_next_unlabeled
    \/ open_image_dir
    \/ export_all_labels

\* C32  Loading and saving label files happen only between gestures: no
\* navigation, save or export command runs while drawing, dragging,
\* resizing or rotating is true.
C32_FilesOnlyBetweenGestures == [][TouchesLabelFiles => Idle]_vars

\* ---------------------------------------------------------------------
\* a pointer event of the viewport: PointerDown, PointerMove or PointerUp
ViewportEvent ==
    \/ \E p \in Points : handle_mouse_press(p)
    \/ \E p \in Points : handle_mouse_move(p)
    \/ handle_mouse_release

\* C33  In Rotate mode a PointerDown starts a Rotating gesture exactly when
\* a label is selected; with no label selected and no gesture active no
\* PointerDown, PointerMove or PointerUp in Rotate mode changes a label, the
\* selection or a gesture flag.
C33_RotatePressNeedsSelection ==
    [][/\ (orientation_mode /\ ~rotating
             /\ \E p \in Points : handle_mouse_press(p))
          => (rotating' <=> HasSelection)
       /\ (orientation_mode /\ ~HasSelection /\ Idle /\ ViewportEvent)
          => UNCHANGED <<labels, selected_label, drawing, dragging,
                         resizing, rotating>>]_vars

\* ---------------------------------------------------------------------
\* The start of a resize is followed on its own from the state in which
\* the directory is open, the label of image 0 (100 x 50 pixels around
\* (60,35)) is selected: the user switches to Edit mode, the slider turns
\* the label to 0 or 90 degrees and the pointer is pressed and moved on the
\* corners the label has at these angles.
ResizePoints == {Pt(10, 10), Pt(110, 60), Pt(85, 85), Pt(35, 85)}

ResizeAngles == {0, 90}

ResizeInit == SelectedInit

ResizeNext ==
    \/ set_edit_mode
    \/ \E v \in ResizeAngles : slider_moved(v)
    \/ \E p \in ResizePoints : handle_mouse_press(p)
    \/ \E p \in ResizePoints : handle_mouse_move(p)
    \/ handle_mouse_release

ResizeSpec == ResizeInit /\ [][ResizeNext]_vars

\* a resize of the selected label by a corner handle has just started
CornerResizeStarted ==
    /\ resizing
    /\ edit_mode
    /\ HasSelection
    /\ resize_handle \in 0..3
    /\ Selected = original_label

\* C34  No jump at the start of a resize: after a PointerDown that starts
\* Resizing on a corner handle, a PointerMove to the exact position of that
\* handle leaves x_center, y_center, width, height and angle of the label
\* equal to the snapshot.
C34_NoJumpAtResizeStart ==
    [][\A p \in ResizePoints :
        (/\ CornerResizeStarted
         /\ p = calculate_handles(original_label, image_width,
                                  image_height)[resize_handle + 1]
         /\ handle_mouse_move(p))
        => Selected' = original_label]_vars

\* ---------------------------------------------------------------------
\* the step is one of the three commands that move to another image
SwitchesImage == prev_image \/ next_image \/ skip_to_next_unlabeled

\* the label file of the image the step leaves, after the step
FileLeft == label_file'[image_files[current_index + 1]]

C36_ExportRestoresDocument ==
    [][export_all_labels
       => /\ current_index' = current_index
          /\ labels' = labels
          /\ labeled_images' \subseteq
                labeled_images \cup {i \in Images : label_file[i].exists}]_vars

\* ---------------------------------------------------------------------
\* The image directory with any subset of its label files present, and a
\* user who moves through it and deletes label files outside the program.
Directories ==
    {d \in [Images -> {NoFile} \cup {InitialFile(i) : i \in Images}] :
        \A i \in Images : d[i].exists => d[i] = InitialFile(i)}

DirectoryInit ==
    /\ Constructed
    /\ label_file \in Directories

\* the label file of image i is deleted in the file manager
label_file_deleted(i) ==
    /\ Dispatch
    /\ label_file[i].exists
    /\ label_file' = [label_file EXCEPT ![i] = NoFile]
    /\ UNCHANGED <<tool, config, imageVars, labels, classVars, labeled_images,
                   selected_label, modeVars, gestureVars, angle_slider,
                   editVars, raised>>

DirectoryNext ==
    \/ open_image_dir
    \/ prev_image
    \/ next_image
    \/ skip_to_next_unlabeled
    \/ \E i \in Images : label_file_deleted(i)

DirectorySpec == DirectoryInit /\ [][DirectoryNext]_vars

\* the 0-based indices, other than the current one, of the images that have
\* no label file
OthersUnlabeled ==
    {k \in 0..(Len(image_files) - 1) :
        k # current_index /\ ~label_file[image_files[k + 1]].exists}

\* how many images after the current one index k comes, going round
StepsAhead(k) == (k - current_index) % Len(image_files)

\* C37  skip_to_next_unlabeled moves to the first image with no label file
\* in cyclic order after the current one (current+1 .. last, then
\* 0 .. current-1); when every other image has a label file it leaves
\* current_index unchanged.  The current image gets a label file from the
\* save done first, even when it has no labels.
C37_SkipFindsNextUnlabeled ==
    [][skip_to_next_unlabeled
       => /\ label_file'[image_files[current_index + 1]].exists
          /\ IF OthersUnlabeled = {}
             THEN current_index' = current_index
             ELSE /\ current_index' \in OthersUnlabeled
                  /\ \A k \in OthersUnlabeled :
                         StepsAhead(current_index') <= StepsAhead(k)]_vars

\* from image 0, which had no label file and got an empty one from the
\* save, the search went over image 1, which has a label file, to image 2,
\* which has none
C37_SkippedOverLabeled ==
    /\ nsteps = 2
    /\ current_index = 2
    /\ label_file[0] = File(<<>>)
    /\ label_file[1] = InitialFile(1)
    /\ ~label_file[2].exists
    /\ labeled_images = {0, 1}

\* ---------------------------------------------------------------------
\* image number k (0-based) of the list has a label file
HasLabelFile(listed, k) == label_file[listed[k + 1]].exists

\* C38  Opening an image directory that contains at least one image sets
\* current_index to the smallest index of an image that has no label file,
\* or to 0 when every image has one, and sets labeled_images to exactly the
\* set of images of that directory that have a label file.
C38_OpenResumesAtFirstUnlabeled ==
    [][open_image_dir
       => /\ image_files' # <<>>
          /\ current_index' \in 0..(Len(image_files') - 1)
          /\ \A k \in 0..(current_index' - 1) : HasLabelFile(image_files', k)
          /\ \/ ~HasLabelFile(image_files', current_index')
             \/ /\ current_index' = 0
                /\ \A k \in 0..(Len(image_files') - 1) :
                       HasLabelFile(image_files', k)
          /\ labeled_images' =
                {image_files'[k + 1] : k \in
                    {j \in 0..(Len(image_files') - 1) :
                        HasLabelFile(image_files', j)}}]_vars

\* the directory was opened with label files for images 0 and 2 only: the
\* session starts at image 1 with two images counted as labeled
C38_ResumedAtSecondImage ==
    /\ nsteps = 1
    /\ current_index = 1
    /\ labeled_images = {0, 2}
    /\ label_file[0].exists
    /\ ~label_file[1].exists
    /\ label_file[2].exists

\* ---------------------------------------------------------------------
\* the labels after the step are the labels before it without the one at
\* 0-based index i, the others unchanged and in their order
WithoutLabel(i) ==
    /\ Len(labels') = Len(labels) - 1
    /\ \A k \in 1..Len(labels') :
        labels'[k] = IF k <= i THEN labels[k] ELSE labels[k + 1]

\* C39  delete_label with a label selected removes exactly that label, keeps
\* all other labels unchanged and in their relative order, and sets the
\* selection to none; with no label selected it changes nothing.
\* clear_all_labels, once confirmed, leaves an empty labels list and no
\* selection.
C39_DeleteRemovesSelectedOnly ==
    [][/\ (HasSelection /\ delete_label)
          => WithoutLabel(selected_label) /\ selected_label' = -1
       /\ (~HasSelection /\ delete_label)
          => UNCHANGED <<labels, selected_label, raised>>
       /\ (labels # <<>> /\ clear_all_labels)
          => labels' = <<>> /\ selected_label' = -1]_vars

\* ---------------------------------------------------------------------
\* C40  update_label is all-or-nothing: when any of the four coordinate text
\* fields does not parse as a number, no field of the selected label
\* (class_id, x_center, y_center, width, height, angle) is changed, nor is
\* any other label or the selection; when no label is selected it changes
\* nothing.
C40_UpdateAllOrNothing ==
    [][(update_label /\ (~FieldsParse \/ selected_label < 0))
       => UNCHANGED <<labels, selected_label, class_combo, angle_slider,
                      editVars, raised>>]_vars

\* the height field holds text that is no number while the class combo box
\* shows another class than the selected label's, and the label still has
\* the class and the coordinates it was loaded with
C40_RejectedUpdate ==
    /\ nsteps = 5
    /\ HasSelection
    /\ Parses(x_edit) /\ Parses(y_edit) /\ Parses(width_edit)
    /\ ~Parses(height_edit)
    /\ class_combo = 1
    /\ Selected.class_id = 0
    /\ Selected.x_center # x_edit[2]
    /\ labels = ParseLines(InitialFile(0).lines)
    /\ raised = NoException

====
